---- MODULE Spec2Model ----
(***************************************************************************)
(* Transaction posting and reversal of the printer-service dashboard:      *)
(* POST and DELETE of /api/transactions (route handler) together with the  *)
(* PostgreSQL schema (constraints, foreign keys) and the two triggers the   *)
(* handler relies on.                                                       *)
(*                                                                          *)
(* Money is NUMERIC(10,2) in the schema; the model counts it in hundredths  *)
(* (150 stands for 1.50).  Transaction ids 'T00001', 'T00002', ... are      *)
(* represented by their numeric suffix 1, 2, ...                            *)
(*                                                                          *)
(* Every await on the store client is one step of a request; between two    *)
(* steps other requests may run (Next) or may not (Spec runs the requests   *)
(* one at a time).  Any store call may fail for reasons outside the         *)
(* program (network, permissions): the failing call changes nothing.        *)
(***************************************************************************)
EXTENDS Integers, Sequences, FiniteSets, TLC

\* ------------------------------------------------------------ bounds
MaxQty == 2        \* largest quantity on a request line
MaxPapers == 1     \* largest paper count of a printer service
MaxTxId == 2       \* transaction ids in use never exceed this suffix
MaxStock == 2      \* a reversal is not started when it could push a stock above this

\* ------------------------------------------------- program constants
PRINTER_USAGE_PRICE_PER_PAPER == 50000   \* 500 per paper, in hundredths
CURRENT_DATE == 100                      \* the day the requests run on

\* a request field that is absent (undefined or '')
NoId == ""

Procs == {"r1"}

\* seed rows of the schema, reduced to what posting reads
CustomerIds == {"C00001", "C00002", "C00003"}
StaffIds == {"S00001"}
PrinterIds == {"P00001"}
ItemIds == {"I00001", "I00002"}
\* an item id with no inventory row
GhostItem == "I00009"

\* i_price, in hundredths: 1.50 and 10.50
Price == [i \in ItemIds |-> IF i = "I00001" THEN 150 ELSE 1050]
InitStock == [i \in ItemIds |-> IF i = "I00001" THEN 2 ELSE 1]

\* membership rows: customer_c_id is UNIQUE, so at most one per customer.
\* C00001 expires today, C00002 expired yesterday, C00003 has none.
Membership ==
    [c \in {"C00001", "C00002"} |->
        [m_dateexpired |-> IF c = "C00001" THEN CURRENT_DATE ELSE CURRENT_DATE - 1]]
InitPoints == [c \in DOMAIN Membership |-> IF c = "C00001" THEN 2 ELSE 5]

\* rows of printer and staff that the printer handlers work on
PrinterRows == {"P00001", "P00002"}
StaffRows == {"S00001", "S00002"}
\* a staff id with no staff row
GhostStaff == "S00009"

VARIABLES
    db,     \* the relational store: one field per table the requests touch
    pc,     \* pc[p]: where request p is in its handler
    req,    \* req[p]: the request payload (POST) or the t_id (DELETE)
    loc,    \* loc[p]: the handler's local variables
    res,    \* res[p]: the response returned, once pc[p] = "done"
    pre     \* pre[p]: the store as it was when request p arrived

vars == <<db, pc, req, loc, res, pre>>

\* ------------------------------------------------------------ helpers
Min(a, b) == IF a <= b THEN a ELSE b

RECURSIVE SumQty(_, _)
\* sum of the quantities a sequence of request lines asks of item i
SumQty(ls, i) ==
    IF ls = <<>> THEN 0
    ELSE (IF Head(ls).i_id = i THEN Head(ls).quantity ELSE 0) + SumQty(Tail(ls), i)

MaxOf(S) == CHOOSE x \in S : \A y \in S : y <= x

\* ---------------------------------------------------------- the store
InitDb ==
    [ i_stock |-> InitStock,
      m_points |-> InitPoints,
      transaction |-> {},
      staff_transact |-> {},
      printer_transaction |-> {},
      transaction_inventory |-> {},
      printer |-> PrinterRows,
      maintenance |-> {[printer_p_id |-> pr, ma_dateti |-> 1] : pr \in PrinterRows},
      staff_printer |-> { [staff_s_id |-> "S00001", printer_p_id |-> "P00001"],
                          [staff_s_id |-> "S00002", printer_p_id |-> "P00002"] } ]

TxIds(d) == {r.t_id : r \in d.transaction}

\* variant: a membership expiring today no longer counts
IsActive_strict(m) == m.m_dateexpired > CURRENT_DATE

\* membership.m_dateexpired >= CURRENT_DATE
IsActive(m) == m.m_dateexpired >= CURRENT_DATE

HasActiveMembership(c) == c \in DOMAIN Membership /\ IsActive(Membership[c])

\* NUMERIC::INT rounds to the nearest integer, halves away from zero
CastInt(x) == IF x >= 0 THEN (x + 50) \div 100 ELSE -((50 - x) \div 100)

\* v_points_to_use := LEAST(v_membership_points, total::INT)
PointsToUse(pts, total) == Min(pts, CastInt(total))

\* variant: rounds up instead of down
PointsEarned_ceil(total) == (total + 999) \div 1000

\* v_points_earned := FLOOR(total / 10)
PointsEarned(total) == total \div 1000

\* SELECT m_points INTO v_membership_points ...: what the trigger reads; 0
\* stands for the unset variable when no active membership is FOUND
SelectPoints(d, c) == IF HasActiveMembership(c) THEN d.m_points[c] ELSE 0

\* the trigger's statements after its SELECT, v_membership_points being what
\* the SELECT read: the branch is chosen and the points to use computed from
\* that value, while UPDATE membership SET m_points = m_points -/+ ... works on
\* the row as it is when the UPDATE runs
trg_benefits_after_select(d, new, v_membership_points) ==
    LET c == new.customer_c_id IN
    IF HasActiveMembership(c)
    THEN IF v_membership_points > 0
         THEN LET use == PointsToUse(v_membership_points, new.t_totalprice) IN
              [ row |-> [new EXCEPT !.t_totalprice = @ - 100 * use],
                m_points |-> [d.m_points EXCEPT ![c] = @ - use],
                branch |-> "redeem" ]
         ELSE LET earned == PointsEarned(new.t_totalprice) IN
              IF earned > 0
              THEN [ row |-> new,
                     m_points |-> [d.m_points EXCEPT ![c] = @ + earned],
                     branch |-> "earn" ]
              ELSE [ row |-> new, m_points |-> d.m_points, branch |-> "noearn" ]
    ELSE [ row |-> new, m_points |-> d.m_points, branch |-> "inactive" ]

\* BEFORE INSERT ON transaction, run without another statement in between:
\* the row as changed, the points as changed, and which branch ran.  A point
\* is worth one unit of money, 100 hundredths.
trg_process_membership_benefits(d, new) ==
    trg_benefits_after_select(d, new, SelectPoints(d, new.customer_c_id))

\* variant: the table has no primary key
FinishInsertTransaction_nokey(d, new, t) ==
    IF t.row.t_totalprice < 0
    THEN [ err |-> "check_totalprice", db |-> d, row |-> new, branch |-> "rejected" ]
    ELSE [ err |-> "none",
           db |-> [d EXCEPT !.transaction = @ \cup {t.row}, !.m_points = t.m_points],
           row |-> t.row,
           branch |-> t.branch ]

\* the INSERT once the trigger has returned t: CHECK (t_totalprice >= 0),
\* then the primary key.  A rejected statement leaves no trace (the
\* trigger's UPDATE of membership is undone with it).
FinishInsertTransaction(d, new, t) ==
    IF t.row.t_totalprice < 0
    THEN [ err |-> "check_totalprice", db |-> d, row |-> new, branch |-> "rejected" ]
    ELSE IF new.t_id \in TxIds(d)
    THEN [ err |-> "duplicate_key", db |-> d, row |-> new, branch |-> "rejected" ]
    ELSE [ err |-> "none",
           db |-> [d EXCEPT !.transaction = @ \cup {t.row}, !.m_points = t.m_points],
           row |-> t.row,
           branch |-> t.branch ]

\* INSERT INTO transaction: the trigger, then the constraints
InsertTransaction(d, new) ==
    FinishInsertTransaction(d, new, trg_process_membership_benefits(d, new))

\* INSERT INTO staff_transact / printer_transaction: the foreign key to
\* transaction must find its row
InsertStaffLink(d, s, t) ==
    IF t \in TxIds(d) /\ s \in StaffIds
    THEN [ err |-> "none", db |-> [d EXCEPT !.staff_transact = @ \cup {[st_s_id |-> s, tr_t_id |-> t]}] ]
    ELSE [ err |-> "foreign_key", db |-> d ]

InsertPrinterLink(d, p, t) ==
    IF t \in TxIds(d) /\ p \in PrinterIds
    THEN [ err |-> "none",
           db |-> [d EXCEPT !.printer_transaction = @ \cup {[printer_p_id |-> p, transaction_t_id |-> t]}] ]
    ELSE [ err |-> "foreign_key", db |-> d ]

\* variant: takes one unit per row, whatever the quantity
trg_reduce_inventory_stock_unit(stock, ls) ==
    [i \in ItemIds |-> stock[i] - Cardinality({k \in 1..Len(ls) : ls[k].i_id = i})]

\* AFTER INSERT ON transaction_inventory, for the rows of one statement:
\* i_stock = i_stock - quantity for each row
trg_reduce_inventory_stock_after_purchase(stock, ls) ==
    [i \in ItemIds |-> stock[i] - SumQty(ls, i)]

\* variant: inventory has no CHECK (i_stock >= 0)
InsertLines_unchecked(d, ls, t) ==
    LET idx == 1..Len(ls)
        stock2 == trg_reduce_inventory_stock_after_purchase(d.i_stock, ls)
        rows == {[transaction_t_id |-> t, inventory_i_id |-> ls[k].i_id, quantity |-> ls[k].quantity] : k \in idx}
    IN
    IF \/ \E j, k \in idx : j < k /\ ls[j].i_id = ls[k].i_id
       \/ \E r \in d.transaction_inventory : r.transaction_t_id = t /\ \E k \in idx : ls[k].i_id = r.inventory_i_id
    THEN [ err |-> "duplicate_key", db |-> d ]
    ELSE IF t \notin TxIds(d) \/ \E k \in idx : ls[k].i_id \notin ItemIds
    THEN [ err |-> "foreign_key", db |-> d ]
    ELSE [ err |-> "none",
           db |-> [d EXCEPT !.transaction_inventory = @ \cup rows, !.i_stock = stock2] ]

\* INSERT INTO transaction_inventory (one statement for all lines): primary
\* key (transaction, item), foreign keys, the trigger, CHECK (i_stock >= 0).
\* All rows or none.
InsertLines(d, ls, t) ==
    LET idx == 1..Len(ls)
        stock2 == trg_reduce_inventory_stock_after_purchase(d.i_stock, ls)
        rows == {[transaction_t_id |-> t, inventory_i_id |-> ls[k].i_id, quantity |-> ls[k].quantity] : k \in idx}
    IN
    IF \/ \E j, k \in idx : j < k /\ ls[j].i_id = ls[k].i_id
       \/ \E r \in d.transaction_inventory : r.transaction_t_id = t /\ \E k \in idx : ls[k].i_id = r.inventory_i_id
    THEN [ err |-> "duplicate_key", db |-> d ]
    ELSE IF t \notin TxIds(d) \/ \E k \in idx : ls[k].i_id \notin ItemIds
    THEN [ err |-> "foreign_key", db |-> d ]
    ELSE IF \E i \in ItemIds : stock2[i] < 0
    THEN [ err |-> "check_stock", db |-> d ]
    ELSE [ err |-> "none",
           db |-> [d EXCEPT !.transaction_inventory = @ \cup rows, !.i_stock = stock2] ]

Referenced(d, t) ==
    \/ \E r \in d.staff_transact : r.tr_t_id = t
    \/ \E r \in d.printer_transaction : r.transaction_t_id = t
    \/ \E r \in d.transaction_inventory : r.transaction_t_id = t

\* variant: the junction tables do not restrict the delete
DeleteTransaction_norestrict(d, t) ==
    [ err |-> "none",
      db |-> [d EXCEPT !.transaction = {r \in @ : r.t_id # t}],
      count |-> Cardinality({r \in d.transaction : r.t_id = t}) ]

\* DELETE FROM transaction WHERE t_id = t: ON DELETE RESTRICT on the three
\* junction tables rejects it while a row still references the transaction
DeleteTransaction(d, t) ==
    IF t \in TxIds(d) /\ Referenced(d, t)
    THEN [ err |-> "foreign_key", db |-> d, count |-> 0 ]
    ELSE [ err |-> "none",
           db |-> [d EXCEPT !.transaction = {r \in @ : r.t_id # t}],
           count |-> Cardinality({r \in d.transaction : r.t_id = t}) ]

\* variant: the membership trigger is declared BEFORE INSERT OR UPDATE
UpdateTransaction_trigger(d, t, c, pm) ==
    IF t \in TxIds(d) /\ c \notin CustomerIds
    THEN [ err |-> "foreign_key", db |-> d, rows |-> 0 ]
    ELSE IF t \notin TxIds(d)
    THEN [ err |-> "none", db |-> d, rows |-> 0 ]
    ELSE LET old == CHOOSE r \in d.transaction : r.t_id = t
             trg == trg_process_membership_benefits(d,
                        [old EXCEPT !.customer_c_id = c, !.t_paymentmethod = pm])
         IN [ err |-> "none",
              db |-> [d EXCEPT !.transaction = (@ \ {old}) \cup {trg.row},
                               !.m_points = trg.m_points],
              rows |-> 1 ]

\* variant: the update has lost its filter on t_id
UpdateTransaction_all(d, t, c, pm) ==
    IF t \in TxIds(d) /\ c \notin CustomerIds
    THEN [ err |-> "foreign_key", db |-> d, rows |-> 0 ]
    ELSE [ err |-> "none",
           db |-> [d EXCEPT !.transaction =
                      {[r EXCEPT !.customer_c_id = c, !.t_paymentmethod = pm] : r \in @}],
           rows |-> Cardinality({r \in d.transaction : r.t_id = t}) ]

\* UPDATE transaction SET customer_c_id, t_paymentmethod WHERE t_id = t: the
\* foreign key to customer must find its row; no trigger is declared on UPDATE
UpdateTransaction(d, t, c, pm) ==
    IF t \in TxIds(d) /\ c \notin CustomerIds
    THEN [ err |-> "foreign_key", db |-> d, rows |-> 0 ]
    ELSE [ err |-> "none",
           db |-> [d EXCEPT !.transaction =
                      {IF r.t_id = t THEN [r EXCEPT !.customer_c_id = c, !.t_paymentmethod = pm]
                       ELSE r : r \in @}],
           rows |-> Cardinality({r \in d.transaction : r.t_id = t}) ]

\* DELETE FROM maintenance / staff_printer WHERE printer_p_id = pr
DeleteMaintenance(d, pr) == [d EXCEPT !.maintenance = {r \in @ : r.printer_p_id # pr}]

DeleteStaffPrinter(d, pr) == [d EXCEPT !.staff_printer = {r \in @ : r.printer_p_id # pr}]

\* a row of maintenance, staff_printer or printer_transaction references pr
PrinterReferenced(d, pr) ==
    \/ \E r \in d.maintenance : r.printer_p_id = pr
    \/ \E r \in d.staff_printer : r.printer_p_id = pr
    \/ \E r \in d.printer_transaction : r.printer_p_id = pr

\* DELETE FROM printer WHERE p_id = pr, under ON DELETE RESTRICT
DeletePrinter(d, pr) ==
    IF pr \in d.printer /\ PrinterReferenced(d, pr)
    THEN [ err |-> "foreign_key", db |-> d, count |-> 0 ]
    ELSE [ err |-> "none",
           db |-> [d EXCEPT !.printer = @ \ {pr}],
           count |-> Cardinality(d.printer \cap {pr}) ]

\* INSERT INTO staff_printer, one statement for all the records: primary key
\* (staff, printer), foreign keys to staff and printer.  All rows or none.
InsertStaffPrinter(d, ids, pr) ==
    LET idx == 1..Len(ids)
        rows == {[staff_s_id |-> ids[k], printer_p_id |-> pr] : k \in idx}
    IN
    IF (\E j, k \in idx : j < k /\ ids[j] = ids[k]) \/ rows \cap d.staff_printer # {}
    THEN [ err |-> "duplicate_key", db |-> d ]
    ELSE IF pr \notin d.printer \/ \E k \in idx : ids[k] \notin StaffRows
    THEN [ err |-> "foreign_key", db |-> d ]
    ELSE [ err |-> "none", db |-> [d EXCEPT !.staff_printer = @ \cup rows] ]

\* ----------------------------------------------------------- requests
Lines == [i_id : ItemIds, quantity : 1..MaxQty] \cup {[i_id |-> GhostItem, quantity |-> 1]}

FirstLine == [i_id |-> "I00001", quantity |-> 1]

\* no line, one line, or one unit of the first item followed by any line
ItemLists == {<<>>} \cup {<<l>> : l \in Lines} \cup {<<FirstLine, m>> : m \in Lines}

Payload(c, s, pm, pr, n, items) ==
    [ op |-> "POST", customer_c_id |-> c, staff_s_id |-> s, t_paymentmethod |-> pm,
      printer_p_id |-> pr, printer_papers_count |-> n, inventory_items |-> items, t_id |-> 0 ]

\* requests for inventory items only: one line for any customer, any list
\* for the customer without membership
ItemRequests ==
    {Payload(c, s, "Cash", NoId, 0, <<l>>) : c \in CustomerIds, s \in StaffIds, l \in Lines}
    \cup {Payload("C00003", s, "Cash", NoId, 0, items) :
              s \in StaffIds, items \in ItemLists \ {<<>>}}

\* requests with a printer service, alone or with one unit of the first item
ServiceRequests ==
    {Payload("C00003", s, "Cash", pr, n, items) :
        s \in StaffIds, pr \in PrinterIds, n \in 1..MaxPapers,
        items \in {<<>>, <<FirstLine>>}}

\* requests the validation is there to turn away
MalformedRequests ==
    { Payload(NoId, "S00001", "Cash", NoId, 0, <<[i_id |-> "I00001", quantity |-> 1]>>),
      Payload("C00003", NoId, "Cash", NoId, 0, <<[i_id |-> "I00001", quantity |-> 1]>>),
      Payload("C00003", "S00001", NoId, NoId, 0, <<[i_id |-> "I00001", quantity |-> 1]>>),
      Payload("C00003", "S00001", "Cash", NoId, 0, <<>>),
      Payload("C00003", "S00001", "Cash", "P00001", 0, <<>>),
      Payload("C00003", "S00001", "Cash", "P00001", 0, <<[i_id |-> "I00001", quantity |-> 1]>>),
      Payload("C00003", "S00001", "Cash", NoId, 0, <<[i_id |-> "I00001", quantity |-> 0]>>),
      Payload("C00003", "S00001", "Cash", NoId, 0, <<[i_id |-> NoId, quantity |-> 1]>>) }

\* a paper count sent without a printer, next to one inventory line
PaperOnlyRequests ==
    {Payload("C00003", s, "Cash", NoId, n, <<FirstLine>>) : s \in StaffIds, n \in 1..MaxPapers}

PostRequests == ItemRequests \cup ServiceRequests \cup PaperOnlyRequests \cup MalformedRequests

DeleteRequest(t) ==
    [ op |-> "DELETE", customer_c_id |-> NoId, staff_s_id |-> NoId, t_paymentmethod |-> NoId,
      printer_p_id |-> NoId, printer_papers_count |-> 0, inventory_items |-> <<>>, t_id |-> t ]

\* t_id 0 stands for a DELETE without the t_id parameter
DeleteRequests == {DeleteRequest(t) : t \in 0..MaxTxId}

\* PUT { t_id, customer_c_id, t_paymentmethod }
PutRequest(t, c, pm) ==
    [DeleteRequest(t) EXCEPT !.op = "PUT", !.customer_c_id = c, !.t_paymentmethod = pm]

\* an update of the first transaction to the first customer, paid by card,
\* and one without payment method
PutRequests == {PutRequest(1, "C00001", "Card"), PutRequest(1, "C00001", NoId)}

NoReq == [DeleteRequest(0) EXCEPT !.op = ""]

NoLoc ==
    [ inserts |-> <<>>, total |-> 0, newTxId |-> 0, final |-> 0,
      failed |-> "", err |-> "", undo |-> "", branch |-> "", fetched |-> {}, skipped |-> {},
      v_membership_points |-> 0 ]

NoRes == [status |-> 0, kind |-> ""]

\* variant: the payment method is not looked at
ValidPayload_lax(r) ==
    /\ ~( \/ r.customer_c_id = NoId
          \/ r.staff_s_id = NoId
          \/ (r.inventory_items = <<>> /\ (r.printer_p_id = NoId \/ r.printer_papers_count <= 0)) )
    /\ ~(\E k \in 1..Len(r.inventory_items) :
            r.inventory_items[k].i_id = NoId \/ r.inventory_items[k].quantity <= 0)
    /\ ~(r.printer_p_id # NoId /\ r.printer_papers_count <= 0)

\* the three validations that open POST
ValidPayload(r) ==
    /\ ~( \/ r.customer_c_id = NoId
          \/ r.staff_s_id = NoId
          \/ r.t_paymentmethod = NoId
          \/ (r.inventory_items = <<>> /\ (r.printer_p_id = NoId \/ r.printer_papers_count <= 0)) )
    /\ ~(\E k \in 1..Len(r.inventory_items) :
            r.inventory_items[k].i_id = NoId \/ r.inventory_items[k].quantity <= 0)
    /\ ~(r.printer_p_id # NoId /\ r.printer_papers_count <= 0)

RECURSIVE Digits(_)
\* String(n): the decimal digits of n, most significant first
Digits(n) == IF n < 10 THEN <<n>> ELSE Append(Digits(n \div 10), n % 10)

RECURSIVE PadStart(_, _)
\* padStart(w, '0'): zeros in front up to width w, never a cut
PadStart(ds, w) == IF Len(ds) >= w THEN ds ELSE PadStart(<<0>> \o ds, w)

RECURSIVE ParseInt(_)
\* parseInt of a run of digits
ParseInt(ds) == IF ds = <<>> THEN 0 ELSE 10 * ParseInt(SubSeq(ds, 1, Len(ds) - 1)) + ds[Len(ds)]

\* the text of a transaction id: 'T' and the padded suffix
TxIdText(n) == [prefix |-> "T", digits |-> PadStart(Digits(n), 5)]

RECURSIVE TextLess(_, _)
\* the order of the t_id column, character by character
TextLess(a, b) ==
    IF a = <<>> THEN b # <<>>
    ELSE IF b = <<>> THEN FALSE
    ELSE IF Head(a) # Head(b) THEN Head(a) < Head(b)
    ELSE TextLess(Tail(a), Tail(b))

\* order('t_id', descending).limit(1): the greatest id text stored
LastTxIdText(d) ==
    LET texts == {TxIdText(t) : t \in TxIds(d)} IN
    CHOOSE x \in texts : \A y \in texts : ~TextLess(x.digits, y.digits)

\* variant: the increment is forgotten
NextTxId_same(d) == IF TxIds(d) = {} THEN 1 ELSE ParseInt(LastTxIdText(d).digits)

\* newTxId: parseInt(lastId.substring(1)) + 1, or 1 when there is no row;
\* its text is TxIdText(newTxId)
NextTxId(d) == IF TxIds(d) = {} THEN 1 ELSE ParseInt(LastTxIdText(d).digits) + 1

Init ==
    /\ db = InitDb
    /\ pc = [p \in Procs |-> "idle"]
    /\ req = [p \in Procs |-> NoReq]
    /\ loc = [p \in Procs |-> NoLoc]
    /\ res = [p \in Procs |-> NoRes]
    /\ pre = [p \in Procs |-> InitDb]

\* the handler returns a response
Return(p, status, kind) ==
    /\ pc' = [pc EXCEPT ![p] = "done"]
    /\ res' = [res EXCEPT ![p] = [status |-> status, kind |-> kind]]

Goto(p, label) ==
    /\ pc' = [pc EXCEPT ![p] = label]
    /\ UNCHANGED res

\* POST moves on to its next store call, or returns 201 when none is left
Advance(p, label) ==
    IF label = "created" THEN Return(p, 201, "Created") ELSE Goto(p, label)

\* ---------------------------------------------------------------- POST
\* where POST goes once the stock of every line has been checked
AfterChecks(r) ==
    IF r.printer_p_id # NoId /\ r.printer_papers_count > 0 THEN "printer" ELSE "lastid"

\* a request arrives and is validated; no store call yet
PostStart(p) ==
    /\ pc[p] = "idle"
    /\ MaxOf(TxIds(db) \cup {0}) < MaxTxId
    /\ \E r \in PostRequests :
        /\ req' = [req EXCEPT ![p] = r]
        /\ pre' = [pre EXCEPT ![p] = db]
        /\ IF ValidPayload(r)
           THEN Goto(p, IF r.inventory_items # <<>> THEN "check" ELSE AfterChecks(r))
           ELSE Return(p, 400, "Validation")
    /\ UNCHANGED <<db, loc>>

\* variant: the check takes the quantity out of the stock as it goes
PostCheck_reserving(p) ==
    /\ pc[p] = "check"
    /\ LET r == req[p]
           item == r.inventory_items[Len(loc[p].inserts) + 1]
       IN \E fail \in BOOLEAN :
            IF fail \/ item.i_id \notin ItemIds
            THEN Return(p, 404, "ItemNotFound") /\ UNCHANGED <<loc, db>>
            ELSE IF db.i_stock[item.i_id] < item.quantity
            THEN Return(p, 400, "InsufficientStock") /\ UNCHANGED <<loc, db>>
            ELSE /\ loc' = [loc EXCEPT ![p].total = @ + Price[item.i_id] * item.quantity,
                                       ![p].inserts = Append(@, item)]
                 /\ db' = [db EXCEPT !.i_stock[item.i_id] = @ - item.quantity]
                 /\ Goto(p, IF Len(loc[p].inserts) + 1 < Len(r.inventory_items)
                            THEN "check" ELSE AfterChecks(r))
    /\ UNCHANGED <<req, pre>>

\* one turn of the loop over inventory_items: read the item, check its stock
PostCheck(p) ==
    /\ pc[p] = "check"
    /\ LET r == req[p]
           item == r.inventory_items[Len(loc[p].inserts) + 1]
       IN \E fail \in BOOLEAN :
            IF fail \/ item.i_id \notin ItemIds
            THEN Return(p, 404, "ItemNotFound") /\ UNCHANGED loc
            ELSE IF db.i_stock[item.i_id] < item.quantity
            THEN Return(p, 400, "InsufficientStock") /\ UNCHANGED loc
            ELSE /\ loc' = [loc EXCEPT ![p].total = @ + Price[item.i_id] * item.quantity,
                                       ![p].inserts = Append(@, item)]
                 /\ Goto(p, IF Len(loc[p].inserts) + 1 < Len(r.inventory_items)
                            THEN "check" ELSE AfterChecks(r))
    /\ UNCHANGED <<db, req, pre>>

\* the printer is looked up and the service priced
PostPrinter(p) ==
    /\ pc[p] = "printer"
    /\ \E fail \in BOOLEAN :
        IF fail \/ req[p].printer_p_id \notin PrinterIds
        THEN Return(p, 404, "PrinterNotFound") /\ UNCHANGED loc
        ELSE /\ loc' = [loc EXCEPT ![p].total =
                            @ + PRINTER_USAGE_PRICE_PER_PAPER * req[p].printer_papers_count]
             /\ Goto(p, "lastid")
    /\ UNCHANGED <<db, req, pre>>

\* the highest transaction id is read and the new id computed
PostLastId(p) ==
    /\ pc[p] = "lastid"
    /\ \E fail \in BOOLEAN :
        IF fail
        THEN Return(p, 500, "IdGeneration") /\ UNCHANGED loc
        ELSE /\ loc' = [loc EXCEPT ![p].newTxId = NextTxId(db)]
             /\ Goto(p, "ins_tx")
    /\ UNCHANGED <<db, req, pre>>

\* a failed insert throws: the catch block runs next
Throw(p, table, err) ==
    /\ loc' = [loc EXCEPT ![p].failed = table, ![p].err = err]
    /\ Goto(p, "rollback")
    /\ UNCHANGED db

\* the row POST sends to the store
NewRow(p) ==
    [ t_id |-> loc[p].newTxId, customer_c_id |-> req[p].customer_c_id,
      t_totalprice |-> loc[p].total,
      t_paymentmethod |-> req[p].t_paymentmethod,
      t_paperscount |-> req[p].printer_papers_count ]

\* 3. insert into transaction (fires the membership trigger)
PostInsertTx(p) ==
    /\ pc[p] = "ins_tx"
    /\ LET ins == InsertTransaction(db, NewRow(p))
       IN \E fail \in BOOLEAN :
            IF fail THEN Throw(p, "transaction", "store")
            ELSE IF ins.err # "none" THEN Throw(p, "transaction", ins.err)
            ELSE /\ db' = ins.db
                 /\ loc' = [loc EXCEPT ![p].final = ins.row.t_totalprice,
                                       ![p].branch = ins.branch]
                 /\ Goto(p, "ins_staff")
    /\ UNCHANGED <<req, pre>>

\* 3a. the insert into transaction while other statements run (READ
\* COMMITTED): its trigger's SELECT reads the membership row ...
PostTriggerSelect(p) ==
    /\ pc[p] = "ins_tx"
    /\ loc' = [loc EXCEPT ![p].v_membership_points = SelectPoints(db, req[p].customer_c_id)]
    /\ Goto(p, "ins_tx_row")
    /\ UNCHANGED <<db, req, pre>>

\* 3b. ... and the rest of the statement (the trigger's UPDATE of the points,
\* the constraints, the row) takes effect when it commits
PostInsertTxRow(p) ==
    /\ pc[p] = "ins_tx_row"
    /\ LET ins == FinishInsertTransaction(db, NewRow(p),
                     trg_benefits_after_select(db, NewRow(p), loc[p].v_membership_points))
       IN \E fail \in BOOLEAN :
            IF fail THEN Throw(p, "transaction", "store")
            ELSE IF ins.err # "none" THEN Throw(p, "transaction", ins.err)
            ELSE /\ db' = ins.db
                 /\ loc' = [loc EXCEPT ![p].final = ins.row.t_totalprice,
                                       ![p].branch = ins.branch]
                 /\ Goto(p, "ins_staff")
    /\ UNCHANGED <<req, pre>>

\* where POST goes after the staff and printer links
AfterLinks(p) == IF loc[p].inserts # <<>> THEN "ins_lines" ELSE "created"

\* 4. insert into staff_transact
PostInsertStaff(p) ==
    /\ pc[p] = "ins_staff"
    /\ LET ins == InsertStaffLink(db, req[p].staff_s_id, loc[p].newTxId)
       IN \E fail \in BOOLEAN :
            IF fail THEN Throw(p, "staff_transact", "store")
            ELSE IF ins.err # "none" THEN Throw(p, "staff_transact", ins.err)
            ELSE /\ db' = ins.db
                 /\ UNCHANGED loc
                 /\ Advance(p, IF req[p].printer_p_id # NoId THEN "ins_printer" ELSE AfterLinks(p))
    /\ UNCHANGED <<req, pre>>

\* 5. insert into printer_transaction when a printer was selected
PostInsertPrinter(p) ==
    /\ pc[p] = "ins_printer"
    /\ LET ins == InsertPrinterLink(db, req[p].printer_p_id, loc[p].newTxId)
       IN \E fail \in BOOLEAN :
            IF fail THEN Throw(p, "printer_transaction", "store")
            ELSE IF ins.err # "none" THEN Throw(p, "printer_transaction", ins.err)
            ELSE /\ db' = ins.db
                 /\ UNCHANGED loc
                 /\ Advance(p, AfterLinks(p))
    /\ UNCHANGED <<req, pre>>

\* 6. insert into transaction_inventory (fires the stock trigger per row)
PostInsertLines(p) ==
    /\ pc[p] = "ins_lines"
    /\ LET ins == InsertLines(db, loc[p].inserts, loc[p].newTxId)
       IN \E fail \in BOOLEAN :
            IF fail THEN Throw(p, "transaction_inventory", "store")
            ELSE IF ins.err # "none" THEN Throw(p, "transaction_inventory", ins.err)
            ELSE /\ db' = ins.db
                 /\ UNCHANGED loc
                 /\ Advance(p, "created")
    /\ UNCHANGED <<req, pre>>

\* the catch block: delete the transaction row by its id.  The handler does
\* not look at the outcome; loc.undo keeps it for the properties.
PostRollback(p) ==
    /\ pc[p] = "rollback"
    /\ LET del == DeleteTransaction(db, loc[p].newTxId)
       IN \E fail \in BOOLEAN :
            /\ db' = IF fail THEN db ELSE del.db
            /\ loc' = [loc EXCEPT ![p].undo = IF fail THEN "store" ELSE del.err]
    /\ Return(p, 500, "PostFailed")
    /\ UNCHANGED <<req, pre>>


\* -------------------------------------------------------------- DELETE
\* the lines of transaction t as the fetch returns them, each with the stock
\* of its item as read now
FetchedLines(d, t) ==
    { [inventory_i_id |-> r.inventory_i_id, quantity |-> r.quantity,
       i_stock |-> d.i_stock[r.inventory_i_id]] :
         r \in {x \in d.transaction_inventory : x.transaction_t_id = t} }

\* a DELETE arrives; without t_id it is turned away
DeleteStart(p) ==
    /\ pc[p] = "idle"
    /\ \E r \in DeleteRequests :
        /\ \A l \in FetchedLines(db, r.t_id) : l.i_stock + l.quantity <= MaxStock
        /\ req' = [req EXCEPT ![p] = r]
        /\ pre' = [pre EXCEPT ![p] = db]
        /\ IF r.t_id = 0 THEN Return(p, 400, "Validation") ELSE Goto(p, "fetch")
    /\ UNCHANGED <<db, loc>>

\* 1. fetch the lines with their embedded inventory row.  The handler reads
\* the embedded row as item.inventory[0]; the transaction table reads the
\* same embedding as an object.  When the reply carries an object,
\* item.inventory[0] is undefined and every line is skipped with a warning.
DeleteFetch(p) ==
    /\ pc[p] = "fetch"
    /\ \E fail \in BOOLEAN, asArray \in BOOLEAN :
        IF fail
        THEN Return(p, 500, "DeleteFailed") /\ UNCHANGED loc
        ELSE LET got == FetchedLines(db, req[p].t_id) IN
             /\ loc' = [loc EXCEPT ![p].fetched = IF asArray THEN got ELSE {},
                                   ![p].branch = IF asArray \/ got = {} THEN "" ELSE "skipped",
                                   ![p].skipped = IF asArray THEN {}
                                                  ELSE {l.inventory_i_id : l \in got}]
             /\ Goto(p, IF asArray /\ got # {} THEN "restore" ELSE "del_lines")
    /\ UNCHANGED <<db, req, pre>>

\* variant: a failed stock update ends the reversal with an error
DeleteRestore_abort(p) ==
    /\ pc[p] = "restore"
    /\ \E item \in loc[p].fetched, fail \in BOOLEAN :
        IF fail
        THEN Return(p, 500, "DeleteFailed") /\ UNCHANGED <<db, loc>>
        ELSE /\ db' = [db EXCEPT !.i_stock[item.inventory_i_id] = item.i_stock + item.quantity]
             /\ loc' = [loc EXCEPT ![p].fetched = @ \ {item}]
             /\ Goto(p, IF loc[p].fetched = {item} THEN "del_lines" ELSE "restore")
    /\ UNCHANGED <<req, pre>>

\* 2. one turn of the restore loop: write currentStock + quantity, where
\* currentStock is the stock the fetch read; a failed update is logged only
DeleteRestore(p) ==
    /\ pc[p] = "restore"
    /\ \E item \in loc[p].fetched, fail \in BOOLEAN :
        /\ db' = IF fail THEN db
                 ELSE [db EXCEPT !.i_stock[item.inventory_i_id] = item.i_stock + item.quantity]
        /\ loc' = [loc EXCEPT ![p].fetched = @ \ {item},
                              ![p].err = IF fail THEN "restore_failed" ELSE @,
                              ![p].skipped = IF fail THEN @ \cup {item.inventory_i_id} ELSE @]
        /\ Goto(p, IF loc[p].fetched = {item} THEN "del_lines" ELSE "restore")
    /\ UNCHANGED <<req, pre>>

\* 3. delete the junction rows, transaction_inventory first
DeleteLines(p) ==
    /\ pc[p] = "del_lines"
    /\ \E fail \in BOOLEAN :
        IF fail
        THEN Return(p, 500, "DeleteFailed") /\ UNCHANGED db
        ELSE /\ db' = [db EXCEPT !.transaction_inventory =
                            {r \in @ : r.transaction_t_id # req[p].t_id}]
             /\ Goto(p, "del_printer")
    /\ UNCHANGED <<req, loc, pre>>

DeletePrinterLinks(p) ==
    /\ pc[p] = "del_printer"
    /\ \E fail \in BOOLEAN :
        IF fail
        THEN Return(p, 500, "DeleteFailed") /\ UNCHANGED db
        ELSE /\ db' = [db EXCEPT !.printer_transaction =
                            {r \in @ : r.transaction_t_id # req[p].t_id}]
             /\ Goto(p, "del_staff")
    /\ UNCHANGED <<req, loc, pre>>

\* variant: the filter on the transaction id is missing
DeleteStaffLinks_all(p) ==
    /\ pc[p] = "del_staff"
    /\ \E fail \in BOOLEAN :
        IF fail
        THEN Return(p, 500, "DeleteFailed") /\ UNCHANGED db
        ELSE /\ db' = [db EXCEPT !.staff_transact = {}]
             /\ Goto(p, "del_tx")
    /\ UNCHANGED <<req, loc, pre>>

DeleteStaffLinks(p) ==
    /\ pc[p] = "del_staff"
    /\ \E fail \in BOOLEAN :
        IF fail
        THEN Return(p, 500, "DeleteFailed") /\ UNCHANGED db
        ELSE /\ db' = [db EXCEPT !.staff_transact = {r \in @ : r.tr_t_id # req[p].t_id}]
             /\ Goto(p, "del_tx")
    /\ UNCHANGED <<req, loc, pre>>

NullCount == -1

\* the count of the reply: the number of rows deleted when the reply counts
\* them, null when it does not (the delete asks for no count; the reads that
\* use a count ask for it with count: 'exact')
ReplyCount(counted, n) == IF counted THEN n ELSE NullCount

\* variant: the reversal hands a point back to every member
DeleteTx_refund(p) ==
    /\ pc[p] = "del_tx"
    /\ LET del == DeleteTransaction(db, req[p].t_id)
       IN \E fail \in BOOLEAN, counted \in BOOLEAN :
            IF fail \/ del.err # "none"
            THEN Return(p, 500, "DeleteFailed") /\ UNCHANGED db
            ELSE /\ db' = [del.db EXCEPT !.m_points = [c \in DOMAIN @ |-> @[c] + 1]]
                 /\ IF ReplyCount(counted, del.count) = 0
                    THEN Return(p, 404, "NotFound")
                    ELSE Return(p, 200, "Deleted")
    /\ UNCHANGED <<req, loc, pre>>

\* 4. delete the transaction row; 404 when the count is 0
DeleteTx(p) ==
    /\ pc[p] = "del_tx"
    /\ LET del == DeleteTransaction(db, req[p].t_id)
       IN \E fail \in BOOLEAN, counted \in BOOLEAN :
            IF fail \/ del.err # "none"
            THEN Return(p, 500, "DeleteFailed") /\ UNCHANGED db
            ELSE /\ db' = del.db
                 /\ IF ReplyCount(counted, del.count) = 0
                    THEN Return(p, 404, "NotFound")
                    ELSE Return(p, 200, "Deleted")
    /\ UNCHANGED <<req, loc, pre>>

\* ----------------------------------------------------------------- PUT
\* the whole handler: validation, then one UPDATE; 404 when no row matched
PutTransaction(p) ==
    /\ pc[p] = "idle"
    /\ \E r \in PutRequests, fail \in BOOLEAN :
        LET upd == UpdateTransaction(db, r.t_id, r.customer_c_id, r.t_paymentmethod) IN
        /\ req' = [req EXCEPT ![p] = r]
        /\ pre' = [pre EXCEPT ![p] = db]
        /\ IF r.t_id = 0 \/ r.customer_c_id = NoId \/ r.t_paymentmethod = NoId
           THEN Return(p, 400, "Validation") /\ UNCHANGED db
           ELSE IF fail \/ upd.err # "none"
           THEN Return(p, 500, "UpdateFailed") /\ UNCHANGED db
           ELSE /\ db' = upd.db
                /\ IF upd.rows = 0 THEN Return(p, 404, "NotFound") ELSE Return(p, 200, "Updated")
    /\ UNCHANGED loc

\* ----------------------------------------------- DELETE /api/printers
PrinterDeleteRequests == {[op |-> "DELETE_PRINTER", p_id |-> pr] : pr \in PrinterRows \cup {NoId}}

\* the handler ends on an error of the store: what failed is kept in loc
Fail(p, status, kind, err) ==
    /\ loc' = [loc EXCEPT ![p].err = err]
    /\ Return(p, status, kind)
    /\ UNCHANGED db

\* a DELETE arrives; without p_id it is turned away
PrinterDeleteStart(p) ==
    /\ pc[p] = "idle"
    /\ \E r \in PrinterDeleteRequests :
        /\ req' = [req EXCEPT ![p] = r]
        /\ pre' = [pre EXCEPT ![p] = db]
        /\ IF r.p_id = NoId THEN Return(p, 400, "Validation") ELSE Goto(p, "pd_maintenance")
    /\ UNCHANGED <<db, loc>>

\* 1. delete the printer's maintenance records
PrinterDeleteMaintenance(p) ==
    /\ pc[p] = "pd_maintenance"
    /\ \E fail \in BOOLEAN :
        IF fail THEN Fail(p, 500, "DeleteFailed", "store")
        ELSE /\ db' = DeleteMaintenance(db, req[p].p_id)
             /\ Goto(p, "pd_staff")
             /\ UNCHANGED loc
    /\ UNCHANGED <<req, pre>>

\* 2. delete the printer's staff assignments
PrinterDeleteStaff(p) ==
    /\ pc[p] = "pd_staff"
    /\ \E fail \in BOOLEAN :
        IF fail THEN Fail(p, 500, "DeleteFailed", "store")
        ELSE /\ db' = DeleteStaffPrinter(db, req[p].p_id)
             /\ Goto(p, "pd_printer")
             /\ UNCHANGED loc
    /\ UNCHANGED <<req, pre>>

\* 3. delete the printer row; 404 when the count is 0
PrinterDeleteRow(p) ==
    /\ pc[p] = "pd_printer"
    /\ LET del == DeletePrinter(db, req[p].p_id)
       IN \E fail \in BOOLEAN, counted \in BOOLEAN :
            IF fail THEN Fail(p, 500, "DeleteFailed", "store")
            ELSE IF del.err # "none" THEN Fail(p, 500, "DeleteFailed", del.err)
            ELSE /\ db' = del.db
                 /\ UNCHANGED loc
                 /\ IF ReplyCount(counted, del.count) = 0
                    THEN Return(p, 404, "NotFound")
                    ELSE Return(p, 200, "Deleted")
    /\ UNCHANGED <<req, pre>>

\* ------------------------------------- PUT /api/printers/{p_id}/staff
StaffIdLists ==
    { <<>>, <<"S00001">>, <<"S00002">>, <<"S00001", "S00002">>, <<"S00002", "S00002">>,
      <<GhostStaff>>, <<"S00001", GhostStaff>> }

StaffPutRequests ==
    {[op |-> "PUT_PRINTER_STAFF", p_id |-> pr, staffIds |-> ids, isArray |-> TRUE] :
        pr \in PrinterRows, ids \in StaffIdLists}
    \cup { [op |-> "PUT_PRINTER_STAFF", p_id |-> NoId, staffIds |-> <<>>, isArray |-> TRUE],
           [op |-> "PUT_PRINTER_STAFF", p_id |-> "P00001", staffIds |-> <<>>, isArray |-> FALSE] }

\* a PUT arrives and is validated
StaffPutStart(p) ==
    /\ pc[p] = "idle"
    /\ \E r \in StaffPutRequests :
        /\ req' = [req EXCEPT ![p] = r]
        /\ pre' = [pre EXCEPT ![p] = db]
        /\ IF r.p_id = NoId \/ ~r.isArray
           THEN Return(p, 400, "Validation")
           ELSE Goto(p, "sp_clear")
    /\ UNCHANGED <<db, loc>>

\* 1. delete the printer's existing assignments
StaffPutClear(p) ==
    /\ pc[p] = "sp_clear"
    /\ \E fail \in BOOLEAN :
        IF fail THEN Fail(p, 500, "ClearFailed", "store")
        ELSE /\ db' = DeleteStaffPrinter(db, req[p].p_id)
             /\ UNCHANGED loc
             /\ IF Len(req[p].staffIds) > 0
                THEN Goto(p, "sp_insert")
                ELSE Return(p, 200, "Updated")
    /\ UNCHANGED <<req, pre>>

\* 2. insert the new assignments
StaffPutInsert(p) ==
    /\ pc[p] = "sp_insert"
    /\ LET ins == InsertStaffPrinter(db, req[p].staffIds, req[p].p_id)
       IN \E fail \in BOOLEAN :
            IF fail THEN Fail(p, 500, "AssignFailed", "store")
            ELSE IF ins.err # "none" THEN Fail(p, 500, "AssignFailed", ins.err)
            ELSE /\ db' = ins.db
                 /\ UNCHANGED loc
                 /\ Return(p, 200, "Updated")
    /\ UNCHANGED <<req, pre>>

\* the response has been delivered; the request's slot is free again
Ack(p) ==
    /\ pc[p] = "done"
    /\ pc' = [pc EXCEPT ![p] = "idle"]
    /\ req' = [req EXCEPT ![p] = NoReq]
    /\ loc' = [loc EXCEPT ![p] = NoLoc]
    /\ res' = [res EXCEPT ![p] = NoRes]
    /\ pre' = [pre EXCEPT ![p] = InitDb]
    /\ UNCHANGED db

Next ==
    \E p \in Procs :
        \/ PostStart(p)
        \/ PostCheck(p)
        \/ PostPrinter(p)
        \/ PostLastId(p)
        \/ PostInsertTx(p)
        \/ PostInsertStaff(p)
        \/ PostInsertPrinter(p)
        \/ PostInsertLines(p)
        \/ PostRollback(p)
        \/ DeleteStart(p)
        \/ DeleteFetch(p)
        \/ DeleteRestore(p)
        \/ DeleteLines(p)
        \/ DeletePrinterLinks(p)
        \/ DeleteStaffLinks(p)
        \/ DeleteTx(p)
        \/ PutTransaction(p)
        \/ Ack(p)

\* requests are served one at a time
Spec == Init /\ [][Next]_vars

\* -------------------------------------------------- concurrent requests
ConcProcs == {"r1", "r2"}

\* the store after one earlier posting: T00001, one unit of the first item
\* for the customer without membership
SeededDb ==
    LET row == [ t_id |-> 1, customer_c_id |-> "C00003", t_totalprice |-> Price["I00001"],
                 t_paymentmethod |-> "Cash", t_paperscount |-> 0 ]
        a == InsertTransaction(InitDb, row).db
        b == InsertStaffLink(a, "S00001", 1).db
    IN InsertLines(b, <<FirstLine>>, 1).db

InitConc ==
    /\ db \in {InitDb, SeededDb}
    /\ pc = [p \in ConcProcs |-> "idle"]
    /\ req = [p \in ConcProcs |-> NoReq]
    /\ loc = [p \in ConcProcs |-> NoLoc]
    /\ res = [p \in ConcProcs |-> NoRes]
    /\ pre = [p \in ConcProcs |-> InitDb]

\* two requests, each handled once, their store calls interleaved
NextConc ==
    \E p \in ConcProcs :
        \/ PostStart(p)
        \/ PostCheck(p)
        \/ PostPrinter(p)
        \/ PostLastId(p)
        \/ PostTriggerSelect(p)
        \/ PostInsertTxRow(p)
        \/ PostInsertStaff(p)
        \/ PostInsertPrinter(p)
        \/ PostInsertLines(p)
        \/ PostRollback(p)
        \/ DeleteStart(p)
        \/ DeleteFetch(p)
        \/ DeleteRestore(p)
        \/ DeleteLines(p)
        \/ DeletePrinterLinks(p)
        \/ DeleteStaffLinks(p)
        \/ DeleteTx(p)

SpecConc == InitConc /\ [][NextConc]_vars

\* ------------------------------------------------- the printer handlers
\* the store after a posting of one paper on the first printer
PrinterUsedDb ==
    LET row == [ t_id |-> 1, customer_c_id |-> "C00003",
                 t_totalprice |-> PRINTER_USAGE_PRICE_PER_PAPER,
                 t_paymentmethod |-> "Cash", t_paperscount |-> 1 ]
        a == InsertTransaction(InitDb, row).db
        b == InsertStaffLink(a, "S00001", 1).db
    IN InsertPrinterLink(b, "P00001", 1).db

InitPrinters ==
    /\ db \in {InitDb, PrinterUsedDb}
    /\ pc = [p \in Procs |-> "idle"]
    /\ req = [p \in Procs |-> NoReq]
    /\ loc = [p \in Procs |-> NoLoc]
    /\ res = [p \in Procs |-> NoRes]
    /\ pre = [p \in Procs |-> InitDb]

NextPrinters ==
    \E p \in Procs :
        \/ PrinterDeleteStart(p)
        \/ PrinterDeleteMaintenance(p)
        \/ PrinterDeleteStaff(p)
        \/ PrinterDeleteRow(p)
        \/ StaffPutStart(p)
        \/ StaffPutClear(p)
        \/ StaffPutInsert(p)
        \/ Ack(p)

\* printer deletions and staff assignments, one request at a time
SpecPrinters == InitPrinters /\ [][NextPrinters]_vars

TypeOK ==
    /\ \A i \in ItemIds : db.i_stock[i] \in Int
    /\ \A p \in Procs : pc[p] \in {"idle", "check", "printer", "lastid", "ins_tx", "ins_tx_row", "ins_staff",
                                   "ins_printer", "ins_lines", "rollback", "fetch", "restore",
                                   "del_lines", "del_printer", "del_staff", "del_tx", "done",
                                   "pd_maintenance", "pd_staff", "pd_printer",
                                   "sp_clear", "sp_insert"}


\* ======================================================================
\* Properties
\* ======================================================================
IsPost(p) == req[p].op = "POST"
IsDelete(p) == req[p].op = "DELETE"

\* the transaction row with id t
StoredRow(d, t) == CHOOSE r \in d.transaction : r.t_id = t

\* the lines of transaction t
LinesOf(d, t) == {r \in d.transaction_inventory : r.transaction_t_id = t}

\* the quantity transaction t holds of item i (at most one line per item)
LineQty(d, t, i) ==
    IF \E r \in LinesOf(d, t) : r.inventory_i_id = i
    THEN (CHOOSE r \in LinesOf(d, t) : r.inventory_i_id = i).quantity
    ELSE 0

\* the insert into transaction has just gone through for request p
JustInserted(p) == IsPost(p) /\ pc[p] = "ins_staff"

\* the store turned the insert into transaction down (not an outage)
InsertRejected(p) ==
    IsPost(p) /\ pc[p] = "rollback" /\ loc[p].failed = "transaction" /\ loc[p].err # "store"

\* the customer has a membership that has not expired, by the dates
MemberOn(c) == c \in DOMAIN Membership /\ ~(Membership[c].m_dateexpired < CURRENT_DATE)

\* n is x rounded down to whole units, x in hundredths
IsFloorOf(n, x, unit) == n * unit <= x /\ x < (n + 1) * unit

\* C1: a posting that ends on a missing item or on insufficient stock has
\* written nothing (the store is as it was when the request arrived), and a
\* posting writes only after every requested line was found with enough stock.
C1_ChecksBeforeWrites ==
    \A p \in Procs :
        IsPost(p) =>
            /\ (pc[p] = "done" /\ res[p].kind \in {"ItemNotFound", "InsufficientStock"}
                  => db = pre[p])
            /\ (db # pre[p] =>
                  /\ loc[p].inserts = req[p].inventory_items
                  /\ \A k \in 1..Len(req[p].inventory_items) :
                        LET l == req[p].inventory_items[k] IN
                        l.i_id \in ItemIds /\ l.quantity <= pre[p].i_stock[l.i_id])

\* the second line of a request fails the stock check after the first passed
C1_Witness ==
    \E p \in Procs :
        /\ IsPost(p) /\ pc[p] = "done" /\ res[p].kind = "InsufficientStock"
        /\ Len(req[p].inventory_items) = 2 /\ Len(loc[p].inserts) = 1

\* C2: after a posting that returned success, every item's stock is its stock
\* before minus the quantities the request asked of it.
C2_StockAfterPosting ==
    \A p \in Procs :
        IsPost(p) /\ pc[p] = "done" /\ res[p].status = 201 =>
            \A i \in ItemIds :
                db.i_stock[i] = pre[p].i_stock[i] - SumQty(req[p].inventory_items, i)

\* a posting of two different items succeeded
C2_Witness ==
    \E p \in Procs :
        /\ IsPost(p) /\ pc[p] = "done" /\ res[p].status = 201
        /\ Len(req[p].inventory_items) = 2
        /\ req[p].inventory_items[1].i_id # req[p].inventory_items[2].i_id

\* C3: after a DELETE that returned success, every item's stock is its stock
\* before plus the quantity on the transaction's line for it.
C3_ReversalRestoresStock ==
    \A p \in Procs :
        IsDelete(p) /\ pc[p] = "done" /\ res[p].status = 200 =>
            \A i \in ItemIds :
                db.i_stock[i] = pre[p].i_stock[i] + LineQty(pre[p], req[p].t_id, i)

\* C4: once a posting has failed at the staff link, the printer link or the
\* inventory lines, no transaction row with the generated id exists (leaving
\* aside a compensating delete that never reached the store).
C4_CompensationDeletesRow ==
    \A p \in Procs :
        /\ IsPost(p) /\ pc[p] = "done" /\ res[p].kind = "PostFailed"
        /\ loc[p].failed \in {"staff_transact", "printer_transaction", "transaction_inventory"}
        /\ loc[p].undo # "store"
        => loc[p].newTxId \notin TxIds(db)

\* the rows of transaction t that a posting of request r creates, present or not
HasStaffLink(d, t) == \E r \in d.staff_transact : r.tr_t_id = t
HasPrinterLink(d, t) == \E r \in d.printer_transaction : r.transaction_t_id = t
HasAllLines(d, t, ls) ==
    \A k \in 1..Len(ls) : LineQty(d, t, ls[k].i_id) = ls[k].quantity

\* C5: after a posting has returned, the transaction row exists with its staff
\* link, its printer link (when a printer was requested) and all its lines, or
\* none of these rows exists (leaving aside a compensating delete that never
\* reached the store).
C5_AtomicCreation ==
    \A p \in Procs :
        IsPost(p) /\ pc[p] = "done" /\ loc[p].newTxId # 0 /\ loc[p].undo # "store" =>
            LET t == loc[p].newTxId IN
            \/ /\ t \in TxIds(db)
               /\ HasStaffLink(db, t)
               /\ (req[p].printer_p_id # NoId => HasPrinterLink(db, t))
               /\ HasAllLines(db, t, req[p].inventory_items)
            \/ /\ t \notin TxIds(db)
               /\ ~HasStaffLink(db, t)
               /\ ~HasPrinterLink(db, t)
               /\ LinesOf(db, t) = {}

\* C6: for a customer with an active membership and points > 0 the store
\* accepts the row, the stored total is candidate - min(points, floor(candidate))
\* and the points become points - min(points, floor(candidate)).
C6_RedemptionUsesFloor ==
    \A p \in Procs :
        LET c == req[p].customer_c_id IN
        IsPost(p) /\ MemberOn(c) /\ pre[p].m_points[c] > 0 =>
            /\ ~InsertRejected(p)
            /\ JustInserted(p) =>
                 \E n \in 0..loc[p].total :
                    /\ IsFloorOf(n, loc[p].total, 100)
                    /\ StoredRow(db, loc[p].newTxId).t_totalprice
                          = loc[p].total - 100 * Min(pre[p].m_points[c], n)
                    /\ db.m_points[c] = pre[p].m_points[c] - Min(pre[p].m_points[c], n)

\* C7: the points used never exceed the candidate total, so no insert into
\* transaction is turned down by CHECK (t_totalprice >= 0).
C7_RedemptionNeverNegative ==
    \A p \in Procs :
        IsPost(p) /\ pc[p] \in {"rollback", "done"} /\ loc[p].failed = "transaction"
            => loc[p].err # "check_totalprice"

\* C8: for a customer with an active membership and 0 points the stored total
\* is the candidate total and the points become floor(candidate / 10); when
\* that is 0 the membership row is not written.
C8_AccrualAtZeroPoints ==
    \A p \in Procs :
        LET c == req[p].customer_c_id IN
        IsPost(p) /\ MemberOn(c) /\ pre[p].m_points[c] = 0 =>
            /\ ~InsertRejected(p)
            /\ JustInserted(p) =>
                 /\ StoredRow(db, loc[p].newTxId).t_totalprice = loc[p].total
                 /\ IsFloorOf(db.m_points[c], loc[p].total, 1000)
                 /\ (db.m_points[c] = 0 => loc[p].branch = "noearn")
                 /\ \A o \in DOMAIN Membership \ {c} : db.m_points[o] = pre[p].m_points[o]

\* a member with 0 points has bought for 10.50 and earned a point
C8_Witness ==
    \E p \in Procs :
        LET c == req[p].customer_c_id IN
        /\ JustInserted(p) /\ MemberOn(c) /\ pre[p].m_points[c] = 0
        /\ loc[p].total = 1050 /\ db.m_points[c] = 1

\* C9: for a customer without membership or with an expired one the stored
\* total is the candidate total and no membership row changes during the
\* posting; a membership that expires today gets the benefit.
C9_NoActiveMembership ==
    \A p \in Procs :
        LET c == req[p].customer_c_id IN
        IsPost(p) /\ c # NoId =>
            /\ (c \notin DOMAIN Membership \/ Membership[c].m_dateexpired < CURRENT_DATE) =>
                  /\ db.m_points = pre[p].m_points
                  /\ ~InsertRejected(p)
                  /\ JustInserted(p) =>
                        /\ StoredRow(db, loc[p].newTxId).t_totalprice = loc[p].total
                        /\ loc[p].branch = "inactive"
            /\ (c \in DOMAIN Membership /\ Membership[c].m_dateexpired = CURRENT_DATE) =>
                  (JustInserted(p) => loc[p].branch \in {"redeem", "earn", "noearn"})

\* the customer whose membership expired yesterday, holding 5 points, has
\* had a transaction row inserted
C9_Witness ==
    \E p \in Procs :
        /\ JustInserted(p) /\ req[p].customer_c_id = "C00002"
        /\ db.m_points["C00002"] = 5

\* C10: a DELETE for an id with no transaction row reports 404 and changes
\* nothing (leaving aside a store call that fails outright).
C10_SecondDeleteNotFound ==
    \A p \in Procs :
        /\ IsDelete(p) /\ pc[p] = "done" /\ req[p].t_id # 0
        /\ req[p].t_id \notin TxIds(pre[p]) /\ res[p].status # 500
        => res[p].status = 404 /\ db = pre[p]

\* the rows of table tbl that do not belong to transaction t (key field k)
OtherRows(rows, k, t) == {r \in rows : r[k] # t}

\* C11: after a DELETE that returned success, the transaction row and every
\* staff link, printer link and inventory line of that transaction are gone,
\* and the rows of every other transaction are as they were.
C11_ReversalDeletesRows ==
    \A p \in Procs :
        IsDelete(p) /\ pc[p] = "done" /\ res[p].status = 200 =>
            LET t == req[p].t_id IN
            /\ t \notin TxIds(db)
            /\ ~HasStaffLink(db, t) /\ ~HasPrinterLink(db, t) /\ LinesOf(db, t) = {}
            /\ OtherRows(db.transaction, "t_id", t) = OtherRows(pre[p].transaction, "t_id", t)
            /\ OtherRows(db.staff_transact, "tr_t_id", t)
                  = OtherRows(pre[p].staff_transact, "tr_t_id", t)
            /\ OtherRows(db.printer_transaction, "transaction_t_id", t)
                  = OtherRows(pre[p].printer_transaction, "transaction_t_id", t)
            /\ OtherRows(db.transaction_inventory, "transaction_t_id", t)
                  = OtherRows(pre[p].transaction_inventory, "transaction_t_id", t)

\* a transaction with a staff link, a printer link and a line has been
\* reversed while another transaction with its own rows exists
C11_Witness ==
    \E p \in Procs :
        /\ IsDelete(p) /\ pc[p] = "done" /\ res[p].status = 200
        /\ LET t == req[p].t_id IN
            /\ t \in TxIds(pre[p]) /\ t \notin TxIds(db)
            /\ HasStaffLink(pre[p], t) /\ HasPrinterLink(pre[p], t) /\ LinesOf(pre[p], t) # {}
            /\ \E o \in TxIds(db) : HasStaffLink(db, o) /\ LinesOf(db, o) # {}

RECURSIVE SumPrice(_)
\* sum over the lines of quantity times unit price
SumPrice(ls) ==
    IF ls = <<>> THEN 0 ELSE Price[Head(ls).i_id] * Head(ls).quantity + SumPrice(Tail(ls))

\* C12: the candidate total a posting sends to the store is the sum over its
\* lines of quantity times unit price, plus 500 per paper whenever the paper
\* count is > 0.
C12_CandidateTotal ==
    \A p \in Procs :
        IsPost(p) /\ pc[p] = "ins_tx" =>
            loc[p].total = SumPrice(req[p].inventory_items)
                + (IF req[p].printer_papers_count > 0
                   THEN req[p].printer_papers_count * PRINTER_USAGE_PRICE_PER_PAPER ELSE 0)

\* the request names customer, staff and payment method
C13_HasFields(r) ==
    r.customer_c_id # NoId /\ r.staff_s_id # NoId /\ r.t_paymentmethod # NoId

\* the request has an inventory line or a printer service with papers
C13_HasContent(r) ==
    Len(r.inventory_items) >= 1 \/ (r.printer_p_id # NoId /\ r.printer_papers_count > 0)

\* every line names its item with a positive quantity, and a printer that is
\* named comes with a positive paper count
C13_WellFormed(r) ==
    /\ \A k \in 1..Len(r.inventory_items) :
          r.inventory_items[k].i_id # NoId /\ r.inventory_items[k].quantity > 0
    /\ (r.printer_p_id # NoId => r.printer_papers_count > 0)

\* a posting turned away by the validation has touched nothing
C13_RejectedEarly(p) ==
    res[p].kind = "Validation" => db = pre[p] /\ loc[p] = NoLoc

\* C13 as stated: a posting is turned away by the validation, before any
\* store call, exactly when a required field is missing or it has neither an
\* inventory line nor a printer service with papers.
C13_ValidationAsStated ==
    \A p \in Procs :
        IsPost(p) /\ pc[p] # "idle" =>
            /\ C13_RejectedEarly(p)
            /\ (res[p].kind = "Validation")
                  <=> ~(C13_HasFields(req[p]) /\ C13_HasContent(req[p]))

\* C13 (amended): a posting is turned away by the validation, before any store
\* call, exactly when a required field is missing, or it has neither an
\* inventory line nor a printer service with papers, or a line lacks its item
\* id or a positive quantity, or a printer is named without a positive paper
\* count.
C13_Validation ==
    \A p \in Procs :
        IsPost(p) /\ pc[p] # "idle" =>
            /\ C13_RejectedEarly(p)
            /\ (res[p].kind = "Validation")
                  <=> ~(C13_HasFields(req[p]) /\ C13_HasContent(req[p]) /\ C13_WellFormed(req[p]))

\* a posting with the three fields but no line and no papers was turned away
C13_Witness ==
    \E p \in Procs :
        /\ IsPost(p) /\ pc[p] = "done" /\ res[p].kind = "Validation"
        /\ C13_HasFields(req[p]) /\ ~C13_HasContent(req[p])

C16_OneBenefit(p, row, before, after) ==
    LET c == req[p].customer_c_id
        cand == loc[p].total
    IN
    IF MemberOn(c)
    THEN IF before[c] > 0
         THEN \E use \in 0..before[c] :
                /\ row.t_totalprice = cand - 100 * use
                /\ after = [before EXCEPT ![c] = @ - use]
         ELSE /\ row.t_totalprice = cand
              /\ \E n \in 0..cand : IsFloorOf(n, cand, 1000) /\ after = [before EXCEPT ![c] = n]
    ELSE row.t_totalprice = cand /\ after = before

\* C16: the membership benefit is applied once per created transaction, on the
\* candidate total, in the step that inserts the row; no other step (an update
\* of the row, the inserts of its links and lines, a reversal) changes the
\* points or the total of a row that stays.
C16_BenefitOncePerCreation ==
    [][ LET created == TxIds(db') \ TxIds(db) IN
        /\ \A t \in created :
              \E p \in Procs :
                 /\ IsPost(p) /\ pc[p] = "ins_tx" /\ loc[p].newTxId = t
                 /\ C16_OneBenefit(p, StoredRow(db', t), db.m_points, db'.m_points)
        /\ (created = {} => db'.m_points = db.m_points)
        /\ \A r \in db.transaction :
              r.t_id \in TxIds(db') => StoredRow(db', r.t_id).t_totalprice = r.t_totalprice
      ]_vars

\* the transaction created for the member who held 2 points (10.50 brought
\* down to 8.50) has its links and line and has since been updated
C16_Witness ==
    \E r \in db.transaction :
        /\ r.t_totalprice = 850 /\ r.t_paymentmethod = "Card"
        /\ HasStaffLink(db, r.t_id) /\ LinesOf(db, r.t_id) # {}
        /\ db.m_points["C00001"] = 0

\* C17: a stock update that fails, or a line whose inventory record the
\* reversal cannot read, is skipped: the restore loop goes on to the next line
\* or to the deletions, never to an error; a reversal that then reports
\* success has restored every line it did not skip, left the skipped ones,
\* and deleted the transaction with its rows.
C17_BestEffortRestore ==
    /\ [] (\A p \in Procs :
            IsDelete(p) /\ pc[p] = "done" /\ res[p].status = 200 =>
               LET t == req[p].t_id IN
               /\ \A i \in ItemIds :
                     db.i_stock[i] = pre[p].i_stock[i]
                        + (IF i \in loc[p].skipped THEN 0 ELSE LineQty(pre[p], t, i))
               /\ t \notin TxIds(db) /\ ~Referenced(db, t))
    /\ [][ \A p \in Procs :
              IsDelete(p) /\ pc[p] = "restore" => pc'[p] \in {"restore", "del_lines"} ]_vars

\* a reversal reported success after one line's stock update failed and the
\* other line was restored
C17_Witness ==
    \E p \in Procs :
        /\ IsDelete(p) /\ pc[p] = "done" /\ res[p].status = 200
        /\ loc[p].err = "restore_failed"
        /\ \E i \in ItemIds \ loc[p].skipped :
              /\ LineQty(pre[p], req[p].t_id, i) > 0
              /\ db.i_stock[i] = pre[p].i_stock[i] + LineQty(pre[p], req[p].t_id, i)

\* C15: whatever the interleaving of postings and reversals, no item's stock
\* is ever below 0; a posting whose decrement would take it below 0 is turned
\* down by the store and none of its lines is written.
C15_StockNeverNegative ==
    /\ \A i \in ItemIds : db.i_stock[i] >= 0
    /\ \A p \in ConcProcs :
          IsPost(p) /\ loc[p].failed = "transaction_inventory" /\ loc[p].err = "check_stock"
             => \A l \in LinesOf(db, loc[p].newTxId) :
                   \A k \in 1..Len(loc[p].inserts) : loc[p].inserts[k].i_id # l.inventory_i_id

\* two postings passed the stock check for the last unit of an item; the
\* second one's lines were turned down by the store
C15_Witness ==
    \E p \in ConcProcs : \E q \in ConcProcs \ {p} :
        /\ IsPost(p) /\ pc[p] = "done" /\ res[p].status = 201
        /\ IsPost(q) /\ loc[q].failed = "transaction_inventory" /\ loc[q].err = "check_stock"
        /\ \E i \in ItemIds : db.i_stock[i] = 0 /\ SumQty(loc[q].inserts, i) > 0

\* C18: two concurrent postings can compute the same new id; the table never
\* holds two rows with one id, and of two postings that computed the same id
\* at most one ends in success.
C18_SameIdOnePersists ==
    /\ \A r1 \in db.transaction, r2 \in db.transaction : r1.t_id = r2.t_id => r1 = r2
    /\ \A p \in ConcProcs : \A q \in ConcProcs \ {p} :
          /\ IsPost(p) /\ IsPost(q) /\ pc[p] = "done" /\ pc[q] = "done"
          /\ loc[p].newTxId # 0 /\ loc[p].newTxId = loc[q].newTxId
          => ~(res[p].status = 201 /\ res[q].status = 201)

\* two postings computed the same id; one succeeded, the other's insert was
\* turned down by the primary key
C18_Witness ==
    \E p \in ConcProcs : \E q \in ConcProcs \ {p} :
        /\ IsPost(p) /\ pc[p] = "done" /\ res[p].status = 201
        /\ IsPost(q) /\ pc[q] = "done" /\ loc[q].newTxId = loc[p].newTxId
        /\ loc[q].failed = "transaction" /\ loc[q].err = "duplicate_key"
        /\ loc[p].newTxId \in TxIds(db)

\* C19: a reversal and a posting that arrived on the same store and touch the
\* same item, both ending in success with no line skipped: every item's stock
\* is its stock at arrival minus the quantity posted plus the quantity
\* restored.
C19_NoLostStockUpdate ==
    \A p \in ConcProcs : \A q \in ConcProcs \ {p} :
        /\ IsDelete(p) /\ pc[p] = "done" /\ res[p].status = 200
        /\ loc[p].skipped = {} /\ loc[p].err = ""
        /\ IsPost(q) /\ pc[q] = "done" /\ res[q].status = 201
        /\ pre[p] = pre[q] /\ req[p].t_id \in TxIds(pre[p])
        => \A i \in ItemIds :
              db.i_stock[i] = pre[p].i_stock[i] - SumQty(req[q].inventory_items, i)
                                + LineQty(pre[p], req[p].t_id, i)

\* C20: whatever the interleaving, no membership's points are ever below 0.
C20_PointsNeverNegative ==
    \A c \in DOMAIN Membership : db.m_points[c] >= 0

\* C21: a reversal never writes membership points: from its arrival to its
\* response every membership's points are what they were, whether the
\* transaction had redeemed or earned points.
C21_ReversalKeepsPoints ==
    \A p \in Procs :
        IsDelete(p) /\ pc[p] # "idle" => db.m_points = pre[p].m_points

\* the transaction that redeemed the member's 2 points (10.50 stored as 8.50)
\* has been reversed and the member still holds 0 points
C21_Witness ==
    \E p \in Procs :
        /\ IsDelete(p) /\ pc[p] = "done" /\ res[p].status = 200
        /\ req[p].t_id \in TxIds(pre[p]) /\ req[p].t_id \notin TxIds(db)
        /\ StoredRow(pre[p], req[p].t_id).t_totalprice = 850
        /\ db.m_points["C00001"] = 0

IsPut(p) == req[p].op = "PUT"

\* C22: a PUT that succeeds changes the customer and the payment method of
\* the matched row and nothing else (not its total, its paper count, any
\* other row, any link or line, any stock, any points); for an unknown id it
\* changes nothing and answers 404.
C22_UpdateFrame ==
    \A p \in Procs :
        IsPut(p) /\ pc[p] = "done" =>
            LET t == req[p].t_id IN
            /\ res[p].status = 200 =>
                  /\ t \in TxIds(pre[p]) /\ t \in TxIds(db)
                  /\ LET old == StoredRow(pre[p], t)
                         new == StoredRow(db, t)
                     IN /\ new.customer_c_id = req[p].customer_c_id
                        /\ new.t_paymentmethod = req[p].t_paymentmethod
                        /\ new.t_totalprice = old.t_totalprice
                        /\ new.t_paperscount = old.t_paperscount
                  /\ OtherRows(db.transaction, "t_id", t) = OtherRows(pre[p].transaction, "t_id", t)
                  /\ Cardinality(db.transaction) = Cardinality(pre[p].transaction)
                  /\ db.staff_transact = pre[p].staff_transact
                  /\ db.printer_transaction = pre[p].printer_transaction
                  /\ db.transaction_inventory = pre[p].transaction_inventory
                  /\ db.i_stock = pre[p].i_stock
                  /\ db.m_points = pre[p].m_points
            /\ res[p].status # 200 => db = pre[p]
            /\ (t \notin TxIds(pre[p]) /\ res[p].status \notin {400, 500}) => res[p].status = 404

\* the first of two transactions, created for the customer without
\* membership, now belongs to the first customer and is paid by card
C22_Witness ==
    \E p \in Procs :
        /\ IsPut(p) /\ pc[p] = "done" /\ res[p].status = 200
        /\ Cardinality(db.transaction) = 2
        /\ StoredRow(pre[p], req[p].t_id).customer_c_id = "C00003"
        /\ StoredRow(db, req[p].t_id).customer_c_id = "C00001"
        /\ LinesOf(db, req[p].t_id) # {}

\* C23: the compensating delete of a posting whose insert into transaction
\* the store turned down on a duplicate id removes no transaction row: the
\* posting has none of its own.
C23_CompensationOwnRowOnly ==
    [][ \A p \in ConcProcs :
          /\ IsPost(p) /\ pc[p] = "rollback" /\ loc[p].failed = "transaction"
          /\ loc[p].err = "duplicate_key" /\ pc'[p] = "done"
          => TxIds(db') = TxIds(db) ]_vars

\* the units of item i held by the inventory lines that exist
Held(d, i) ==
    LET rows == {r \in d.transaction_inventory : r.inventory_i_id = i}
        ts == {r.transaction_t_id : r \in rows}
    IN IF ts = {} THEN 0
       ELSE LET RECURSIVE Sum(_)
                Sum(S) == IF S = {} THEN 0
                          ELSE LET t == CHOOSE x \in S : TRUE IN LineQty(d, t, i) + Sum(S \ {t})
            IN Sum(ts)

\* C24: between requests run one at a time, any store call of which may fail,
\* every item's stock plus the quantities on the lines that exist for it is
\* the item's initial stock (a reversal that has just skipped a line set
\* aside).
C24_StockConservation ==
    (\A p \in Procs : pc[p] \in {"idle", "done"} /\ loc[p].skipped = {}) =>
        \A i \in ItemIds : db.i_stock[i] + Held(db, i) = InitStock[i]

\* C25: a posting that returns a failure leaves every membership's points at
\* their value before the posting.
C25_FailedPostingKeepsPoints ==
    \A p \in Procs :
        IsPost(p) /\ pc[p] = "done" /\ res[p].status # 201 => db.m_points = pre[p].m_points

\* C26: in every state, midway through requests included, every staff link,
\* printer link and inventory line references a transaction row that exists.
C26_ReferentialIntegrity ==
    /\ \A r \in db.staff_transact : r.tr_t_id \in TxIds(db)
    /\ \A r \in db.printer_transaction : r.transaction_t_id \in TxIds(db)
    /\ \A r \in db.transaction_inventory : r.transaction_t_id \in TxIds(db)

\* a compensating delete was turned down because the staff link still
\* references the row: row and link are both there
C26_Witness ==
    \E p \in ConcProcs :
        /\ IsPost(p) /\ pc[p] = "done" /\ loc[p].undo = "foreign_key"
        /\ loc[p].newTxId \in TxIds(db) /\ HasStaffLink(db, loc[p].newTxId)

\* C27: a successfully posted transaction stores a paper count > 0 only if it
\* has a printer link and its candidate total included the papers; a request
\* without printer id stores paper count 0.
C27_PaperCountMeansPrinter ==
    \A p \in Procs :
        IsPost(p) /\ pc[p] = "done" /\ res[p].status = 201 =>
            LET row == StoredRow(db, loc[p].newTxId) IN
            /\ row.t_paperscount > 0 =>
                  /\ HasPrinterLink(db, row.t_id)
                  /\ loc[p].total = SumPrice(req[p].inventory_items)
                                      + row.t_paperscount * PRINTER_USAGE_PRICE_PER_PAPER
            /\ req[p].printer_p_id = NoId => row.t_paperscount = 0

\* ------------------------------------------- the add-transaction form
\* a number of the page: NaN, or an integer
Num(n) == [nan |-> FALSE, val |-> n]
NaN == [nan |-> TRUE, val |-> 0]

\* parseInt of the text of a number input: NaN when there is no digit
ParseIntInput(ds) == IF ds = <<>> THEN NaN ELSE Num(ParseInt(ds))

\* Math.max: NaN as soon as one argument is NaN
MathMax(a, b) == IF a.nan \/ b.nan THEN NaN ELSE Num(IF a.val >= b.val THEN a.val ELSE b.val)

\* a > b: false as soon as one side is NaN
Greater(a, b) == ~a.nan /\ ~b.nan /\ a.val > b.val

\* JSON.stringify of a number: NaN is written as null
JsonNumber(n) == [null |-> n.nan, val |-> n.val]

\* what can be typed in a number input: nothing, or digits
InputTexts == {<<>>} \cup {Digits(n) : n \in 0..(MaxQty + 1)}

Form == "form"

\* the state of the modal when it opens
InitForm ==
    [ selectedCustomer |-> NoId, selectedStaff |-> NoId, selectedPrinter |-> NoId,
      printerPapersCount |-> 1, selectedInventory |-> <<>>, paymentMethod |-> NoId,
      messageType |-> "success" ]

\* the selects of the customer, the staff member and the payment method
SetSelectedCustomer ==
    /\ pc[Form] = "open"
    /\ \E c \in {NoId, "C00001"} : loc' = [loc EXCEPT ![Form].selectedCustomer = c]
    /\ UNCHANGED <<db, pc, req, res, pre>>

SetSelectedStaff ==
    /\ pc[Form] = "open"
    /\ \E st \in {NoId, "S00001"} : loc' = [loc EXCEPT ![Form].selectedStaff = st]
    /\ UNCHANGED <<db, pc, req, res, pre>>

SetPaymentMethod ==
    /\ pc[Form] = "open"
    /\ \E pm \in {NoId, "Cash"} : loc' = [loc EXCEPT ![Form].paymentMethod = pm]
    /\ UNCHANGED <<db, pc, req, res, pre>>

\* the printer select also resets the paper count
SetSelectedPrinter ==
    /\ pc[Form] = "open"
    /\ \E pr \in {NoId, "P00001"} :
          loc' = [loc EXCEPT ![Form].selectedPrinter = pr,
                             ![Form].printerPapersCount = IF pr # NoId THEN 1 ELSE 0]
    /\ UNCHANGED <<db, pc, req, res, pre>>

\* the paper count input, shown when a printer is selected: parseInt(...) || 0
SetPrinterPapersCount ==
    /\ pc[Form] = "open"
    /\ loc[Form].selectedPrinter # NoId
    /\ \E text \in InputTexts :
          LET n == ParseIntInput(text)
          IN loc' = [loc EXCEPT ![Form].printerPapersCount = IF n.nan THEN 0 ELSE n.val]
    /\ UNCHANGED <<db, pc, req, res, pre>>

\* some entry of the list is for item i
Selected(sel, i) == \E k \in 1..Len(sel) : sel[k].i_id = i

\* a checkbox of the item list changes
handleInventoryChange ==
    /\ pc[Form] = "open"
    /\ \E itemId \in ItemIds, checked \in BOOLEAN :
          LET prev == loc[Form].selectedInventory
          IN loc' = [loc EXCEPT ![Form].selectedInventory =
                        IF checked
                        THEN IF ~Selected(prev, itemId)
                             THEN Append(prev, [i_id |-> itemId, quantity |-> Num(1)])
                             ELSE prev
                        ELSE SelectSeq(prev, LAMBDA item : item.i_id # itemId)]
    /\ UNCHANGED <<db, pc, req, res, pre>>

\* prev.map(...): the entry of the item gets Math.max(1, quantity)
SetQuantity(prev, itemId, quantity) ==
    [k \in 1..Len(prev) |->
        IF prev[k].i_id = itemId
        THEN [prev[k] EXCEPT !.quantity = MathMax(Num(1), quantity)]
        ELSE prev[k]]

\* the quantity input of a selected item changes
handleInventoryQuantityChange ==
    /\ pc[Form] = "open"
    /\ \E itemId \in ItemIds, text \in InputTexts :
          /\ Selected(loc[Form].selectedInventory, itemId)
          /\ loc' = [loc EXCEPT ![Form].selectedInventory =
                         SetQuantity(@, itemId, ParseIntInput(text))]
    /\ UNCHANGED <<db, pc, req, res, pre>>

\* the body of the request the form sends
TransactionData(f) ==
    [ op |-> "POST", customer_c_id |-> f.selectedCustomer, staff_s_id |-> f.selectedStaff,
      printer_p_id |-> f.selectedPrinter,
      printer_papers_count |->
          IF f.selectedPrinter # NoId /\ f.printerPapersCount > 0 THEN f.printerPapersCount ELSE 0,
      inventory_items |->
          [k \in 1..Len(f.selectedInventory) |->
              [ i_id |-> f.selectedInventory[k].i_id,
                quantity |-> JsonNumber(f.selectedInventory[k].quantity) ]],
      t_paymentmethod |-> f.paymentMethod ]

\* the form is submitted: required fields, then the stock of every entry, then
\* the request is sent
handleSubmit ==
    /\ pc[Form] = "open"
    /\ LET f == loc[Form]
           isPrinterServiceSelected == f.selectedPrinter # NoId /\ f.printerPapersCount > 0
           sel == f.selectedInventory
       IN IF \/ f.selectedCustomer = NoId \/ f.selectedStaff = NoId \/ f.paymentMethod = NoId
             \/ (Len(sel) = 0 /\ ~isPrinterServiceSelected)
             \/ \E k \in 1..Len(sel) : Greater(sel[k].quantity, Num(db.i_stock[sel[k].i_id]))
          THEN /\ loc' = [loc EXCEPT ![Form].messageType = "error"]
               /\ UNCHANGED <<pc, req>>
          ELSE /\ req' = [req EXCEPT ![Form] = TransactionData(f)]
               /\ pc' = [pc EXCEPT ![Form] = "posting"]
               /\ UNCHANGED loc
    /\ UNCHANGED <<db, res, pre>>

\* the answer arrives; a line whose quantity is not a number is never accepted
handleResponse ==
    /\ pc[Form] = "posting"
    /\ \E ok \in BOOLEAN :
          /\ ok => \A k \in 1..Len(req[Form].inventory_items) :
                       ~req[Form].inventory_items[k].quantity.null
          /\ loc' = [loc EXCEPT ![Form].messageType = IF ok THEN "success" ELSE "error"]
          /\ res' = [res EXCEPT ![Form] = [status |-> IF ok THEN 201 ELSE 400,
                                           kind |-> IF ok THEN "Created" ELSE "Rejected"]]
    /\ pc' = [pc EXCEPT ![Form] = "open"]
    /\ req' = [req EXCEPT ![Form] = NoReq]
    /\ UNCHANGED <<db, pre>>

InitFormState ==
    /\ db = InitDb
    /\ pc = [p \in {Form} |-> "open"]
    /\ req = [p \in {Form} |-> NoReq]
    /\ loc = [p \in {Form} |-> InitForm]
    /\ res = [p \in {Form} |-> NoRes]
    /\ pre = [p \in {Form} |-> InitDb]

NextForm ==
    \/ SetSelectedCustomer
    \/ SetSelectedStaff
    \/ SetPaymentMethod
    \/ SetSelectedPrinter
    \/ SetPrinterPapersCount
    \/ handleInventoryChange
    \/ handleInventoryQuantityChange
    \/ handleSubmit
    \/ handleResponse

\* the add-transaction form, from its opening on
SpecForm == InitFormState /\ [][NextForm]_vars

IsPrinterDelete(p) == req[p].op = "DELETE_PRINTER"
IsStaffPut(p) == req[p].op = "PUT_PRINTER_STAFF"

\* the rows of a table that belong to printer pr
RowsOfPrinter(rows, pr) == {r \in rows : r.printer_p_id = pr}

\* C28: a DELETE of a printer that the store turns down (the printer is still
\* referenced by a transaction, say) leaves the printer's maintenance records
\* and staff assignments as they were.
C28_FailedPrinterDeleteKeepsRows ==
    \A p \in Procs :
        /\ IsPrinterDelete(p) /\ pc[p] = "done" /\ res[p].status # 200
        /\ loc[p].err # "store"
        => /\ RowsOfPrinter(db.maintenance, req[p].p_id)
                 = RowsOfPrinter(pre[p].maintenance, req[p].p_id)
           /\ RowsOfPrinter(db.staff_printer, req[p].p_id)
                 = RowsOfPrinter(pre[p].staff_printer, req[p].p_id)

\* the set of the ids in a list
SetOf(ids) == {ids[k] : k \in 1..Len(ids)}

\* C29: a PUT of a printer's staff that succeeds leaves exactly the given ids
\* assigned to the printer and the other printers' assignments as they were;
\* one that the store turns down leaves the previous assignments in place.
C29_StaffAssignmentReplaced ==
    \A p \in Procs :
        IsStaffPut(p) /\ pc[p] = "done" =>
            LET pr == req[p].p_id
                mine == RowsOfPrinter(db.staff_printer, pr)
            IN
            /\ res[p].status = 200 =>
                  /\ {r.staff_s_id : r \in mine} = SetOf(req[p].staffIds)
                  /\ db.staff_printer \ mine
                        = pre[p].staff_printer \ RowsOfPrinter(pre[p].staff_printer, pr)
            /\ (res[p].status = 500 /\ loc[p].err # "store") =>
                  mine = RowsOfPrinter(pre[p].staff_printer, pr)

\* C30: in the add-transaction form, whatever was checked, unchecked and
\* typed, the selected inventory list holds at most one entry per item and
\* every entry's quantity is a number that is at least 1; the request the form
\* sends has no two lines for the same item.
C30_SelectedInventoryWellFormed ==
    LET sel == loc[Form].selectedInventory
        sent == req[Form].inventory_items
    IN
    /\ \A j, k \in 1..Len(sel) : j # k => sel[j].i_id # sel[k].i_id
    /\ \A k \in 1..Len(sel) : ~sel[k].quantity.nan /\ sel[k].quantity.val >= 1
    /\ pc[Form] = "posting" =>
          \A j, k \in 1..Len(sent) : j # k => sent[j].i_id # sent[k].i_id

====
